---------------------------- MODULE Spec2Model ----------------------------
(***************************************************************************)
(* Model of the ELECA energy coach: the App component's state (daily logs, *)
(* subsidy configuration, inventory, season, selected tariff) and the      *)
(* DailyCalendar component's derived values (monthLogs, summary,           *)
(* calendarDays), which are recomputed from that state and the wall clock  *)
(* on every render.                                                        *)
(*                                                                         *)
(* Numbers.  JavaScript numbers are modelled exactly: a unit count is an   *)
(* integer, and every quotient (average per day, projection, confidence,   *)
(* bill) is a rational [n |-> numerator, d |-> denominator > 0].           *)
(* Dates.  A "YYYY-MM-DD" string is the record [y, m, d] of its three      *)
(* zero-padded fields; "YYYY-MM" is [y, m].  Because the fields have fixed *)
(* width, startsWith on the month prefix is equality of y and m, and       *)
(* localeCompare is the lexicographic order on (y, m, d).                  *)
(* Time.  An instant is a number of minutes since 00:00 UTC on 1 January   *)
(* of EpochYear; tz is the local zone's offset from UTC in minutes.        *)
(***************************************************************************)
EXTENDS Integers, Sequences, FiniteSets, TLC

VARIABLES
    dailyLogs,        \* App: useState<UserDailyUsage[]>
    subsidyConfig,    \* App: useState<SubsidyConfig>
    appliances,       \* App: useState<Appliance[]>
    season,           \* App: useState<Season>
    selectedStateId,  \* App: useState<string>
    now,              \* the wall clock read by new Date()
    tz,               \* the runtime's local time zone offset (minutes)
    lenientDate,      \* whether the runtime's Date parser rolls "04-31" over
    profile,          \* App: useState<CloudProfile | null>
    step,             \* App: useState<AppStep>
    lang,             \* App: useState<Language>
    pc,               \* retryWithBackoff: where the call stands
    retries,          \* retryWithBackoff: the retries parameter of the current frame
    backoff,          \* retryWithBackoff: the backoff parameter of the current frame
    calls,            \* retryWithBackoff: invocations of fn so far
    waits,            \* retryWithBackoff: the delays slept so far, in order
    errors,           \* retryWithBackoff: the errors fn has thrown so far, in order
    settled,          \* retryWithBackoff: the value returned or the error thrown
    caller,           \* the exported function that called retryWithBackoff
    outcome,          \* how the promise of that function settled
    lastRender,       \* DailyCalendar: the props and the results of the last render
    showAppForm,      \* App: useState(false), whether the appliance form is open
    editingAppliance, \* App: useState<Appliance | undefined>, the form's initial data
    history,          \* App: useState<HistoricalEntry[]>
    solarConfig,      \* App: useState<SolarConfig>
    storage           \* localStorage: the keys eleca_active_session and eleca_app_data

\* the session: who is signed in, which screen is selected, the language
sessionVars == <<profile, step, lang>>

\* one call of retryWithBackoff
retryVars == <<pc, retries, backoff, calls, waits, errors, settled, caller, outcome>>

\* what an observer of the calendar screen keeps from one render to the next
renderVars == <<lastRender>>

\* the appliance form
formVars == <<showAppForm, editingAppliance>>

\* what only the history and setup screens change, and the browser's storage
storeVars == <<history, solarConfig, storage>>

vars == <<dailyLogs, subsidyConfig, appliances, season, selectedStateId,
          now, tz, lenientDate, sessionVars, retryVars, renderVars, formVars,
          storeVars>>

-----------------------------------------------------------------------------
(* Bounds of the model *)

MaxLogs == 3          \* longest dailyLogs list the journal actions build
MaxHistory == 1       \* longest history list the dashboard builds

UnitChoices == {8, 9}          \* totalUnits a saved day may carry
LogDays == {1, 10, 30}      \* calendar cells the user clicks
TzOffsets == {-300, 0, 330}    \* UTC-5, UTC, IST

-----------------------------------------------------------------------------
(* Rational arithmetic (exact stand-in for JavaScript numbers) *)

\* every rational is kept in lowest terms, so that numerators and
\* denominators stay small
RECURSIVE Gcd(_, _)
Gcd(a, b) == IF b = 0 THEN a ELSE Gcd(b, a % b)

Abs(k) == IF k < 0 THEN -k ELSE k

Rat(n, d) ==
    LET g == Gcd(Abs(n), d)
    IN  [n |-> n \div g, d |-> d \div g]

RInt(k) == [n |-> k, d |-> 1]

RAdd(a, b) ==
    LET l == (a.d \div Gcd(a.d, b.d)) * b.d
    IN  Rat(a.n * (l \div a.d) + b.n * (l \div b.d), l)

RSub(a, b) == RAdd(a, [n |-> -b.n, d |-> b.d])
RScale(a, k) == Rat(a.n * k, a.d)
RDivInt(a, k) == Rat(a.n, a.d * k)
REq(a, b) == a.n * b.d = b.n * a.d
RLeq(a, b) == a.n * b.d <= b.n * a.d
RLess(a, b) == a.n * b.d < b.n * a.d
RMin(a, b) == IF RLeq(a, b) THEN a ELSE b
RMax(a, b) == IF RLeq(a, b) THEN b ELSE a

-----------------------------------------------------------------------------
(* The calendar and the clock *)

EpochYear == 2026

\* new Date(y, m + 1, 0).getDate(): the length of a month (EpochYear is not leap)
MonthLength(m) ==
    IF m = 2 THEN 28
    ELSE IF m \in {4, 6, 9, 11} THEN 30
    ELSE 31

RECURSIVE DaysBeforeMonth(_)
DaysBeforeMonth(m) ==
    IF m <= 1 THEN 0 ELSE DaysBeforeMonth(m - 1) + MonthLength(m - 1)

\* the number of days of the year before the first of month m
DaysBeforeTable == [m \in 1..12 |-> DaysBeforeMonth(m)]
DaysBefore(m) == DaysBeforeTable[m]

MinutesPerDay == 24 * 60

\* the instant of hh:mm UTC on day d of month m
At(m, d, hh, mm) == ((DaysBefore(m) + d - 1) * 24 + hh) * 60 + mm

\* the calendar date of the k-th day of the year (k from 0)
DateOfDayTable ==
    [k \in 0..(DaysBeforeTable[12] + MonthLength(12) - 1) |->
        LET m == CHOOSE mm \in 1..12 :
                     DaysBefore(mm) <= k /\ k < DaysBefore(mm) + MonthLength(mm)
        IN  [y |-> EpochYear, m |-> m, d |-> k - DaysBefore(m) + 1]]

\* the UTC calendar date holding instant t
DateOfInstant(t) == DateOfDayTable[t \div MinutesPerDay]

\* new Date().toISOString().slice(0, 10): today's date in UTC
UtcToday == DateOfInstant(now)

\* the date shown by the local clock (getFullYear / getMonth / getDate)
LocalToday == DateOfInstant(now + tz)

\* new Date().toISOString().slice(0, 7)
currentMonth == [y |-> UtcToday.y, m |-> UtcToday.m]

\* new Date(new Date().getFullYear(), new Date().getMonth() + 1, 0).getDate()
daysInMonth == MonthLength(LocalToday.m)

\* new Date(dateStr) for a date-only ISO string: midnight UTC of that date.
\* A day number beyond the month's length is an illegal field: the parser
\* answers NaN, or (lenient runtimes) rolls over into the next month.
NaN == [nan |-> TRUE, t |-> 0]
DateTime(date) ==
    IF date.d <= MonthLength(date.m)
    THEN [nan |-> FALSE, t |-> At(date.m, date.d, 0, 0)]
    ELSE IF lenientDate
         THEN [nan |-> FALSE, t |-> At(date.m, date.d, 0, 0)]
         ELSE NaN

\* new Date(): the current instant
NowTime == [nan |-> FALSE, t |-> now]

\* new Date(new Date().setHours(0, 0, 0, 0)): the last local midnight
LocalMidnight ==
    [nan |-> FALSE, t |-> ((now + tz) \div MinutesPerDay) * MinutesPerDay - tz]

\* a < b on Date objects: false whenever either side is NaN
TimeLess(a, b) == ~a.nan /\ ~b.nan /\ a.t < b.t

\* `${currentMonth}-${i.toString().padStart(2, '0')}`
DateStr(i) == [y |-> currentMonth.y, m |-> currentMonth.m, d |-> i]

\* variant: only the year is compared
StartsWithYear(date, month) == date.y = month.y

\* l.date.startsWith(currentMonth)
StartsWithMonth(date, month) == date.y = month.y /\ date.m = month.m

\* a.date.localeCompare(b.date) <= 0
DateLeq(a, b) ==
    \/ a.y < b.y
    \/ a.y = b.y /\ a.m < b.m
    \/ a.y = b.y /\ a.m = b.m /\ a.d <= b.d

-----------------------------------------------------------------------------
(* utils/calculator and constants: the tariff catalog, the slab engine and *)
(* the appliance energy model, as the specification describes them         *)

\* a slab {min, max, rate}; max: null is hasMax = FALSE
Slab(min, hasMax, max, rate) ==
    [min |-> min, hasMax |-> hasMax, max |-> max, rate |-> rate]

INDIAN_STATES ==
    << [id |-> "s1", fixedCharge |-> 50,
        slabs |-> << Slab(0, TRUE, 100, 3), Slab(100, TRUE, 300, 5),
                     Slab(300, FALSE, 0, 7) >>],
       [id |-> "s2", fixedCharge |-> 0,
        slabs |-> << Slab(0, TRUE, 200, 4), Slab(200, FALSE, 0, 6) >>] >>

StateIds == {INDIAN_STATES[i].id : i \in 1..Len(INDIAN_STATES)}

\* variant: a slab charges every unit up to its upper bound
SlabCostFromZero(units, slab) ==
    RScale(IF slab.hasMax THEN RMin(units, RInt(slab.max)) ELSE units, slab.rate)

\* the cost of the part of `units` (a rational) that falls inside one slab:
\* (min(units, max ?? Infinity) - min, clamped at 0) * rate
SlabCost(units, slab) ==
    LET top == IF slab.hasMax THEN RMin(units, RInt(slab.max)) ELSE units
        inSlab == RMax(RInt(0), RSub(top, RInt(slab.min)))
    IN  RScale(inSlab, slab.rate)

RECURSIVE SlabsCost(_, _, _)
SlabsCost(units, slabs, i) ==
    IF i > Len(slabs) THEN RInt(0)
    ELSE RAdd(SlabCost(units, slabs[i]), SlabsCost(units, slabs, i + 1))

\* variant: no fixed charge while nothing is consumed
ProgressiveBillChargedOnUse(units, tariff) ==
    LET energyCost == SlabsCost(units, tariff.slabs, 1)
        fixedCharge == IF RLeq(units, RInt(0)) THEN 0 ELSE tariff.fixedCharge
    IN  [energyCost |-> energyCost,
         fixedCharge |-> fixedCharge,
         total |-> RAdd(energyCost, RInt(fixedCharge))]

\* variant: all units are charged at the rate of the slab they reach
ProgressiveBillAtReachedRate(units, tariff) ==
    LET reached == {i \in 1..Len(tariff.slabs) :
                       i = 1 \/ RLess(RInt(tariff.slabs[i].min), units)}
        top == CHOOSE i \in reached : \A j \in reached : j <= i
        energyCost == RScale(units, tariff.slabs[top].rate)
    IN  [energyCost |-> energyCost,
         fixedCharge |-> tariff.fixedCharge,
         total |-> RAdd(energyCost, RInt(tariff.fixedCharge))]

calculateProgressiveBill(units, tariff) ==
    LET energyCost == SlabsCost(units, tariff.slabs, 1)
    IN  [energyCost |-> energyCost,
         fixedCharge |-> tariff.fixedCharge,
         total |-> RAdd(energyCost, RInt(tariff.fixedCharge))]

\* seasonal multiplier in tenths, applied to cooling and heating appliances
SeasonTenths(s) ==
    IF s = "summer" THEN 12 ELSE IF s = "monsoon" THEN 10 ELSE 8

\* monthly units of one appliance (a rational)
calculateApplianceUnits(a, s) ==
    LET tenths == IF a.category \in {"cooling", "heating"}
                  THEN SeasonTenths(s) ELSE 10
        base == IF a.inputMode = "bee_annual"
                THEN Rat(a.annualUnits * a.quantity, 12)
                ELSE Rat(a.watts * a.hoursPerDay * a.daysPerMonth * a.quantity,
                         1000)
    IN  RDivInt(RScale(base, tenths), 10)

-----------------------------------------------------------------------------
(* DailyCalendar: values derived on every render *)

\* stable insertion of x into a list sorted by date: after every element
\* whose date is not later (at the end when the last element is not later)
InsertByDate(x, sorted) ==
    IF sorted = << >> \/ DateLeq(sorted[Len(sorted)].date, x.date)
    THEN Append(sorted, x)
    ELSE LET p == Cardinality({k \in 1..Len(sorted) :
                                  DateLeq(sorted[k].date, x.date)})
         IN  SubSeq(sorted, 1, p) \o << x >> \o SubSeq(sorted, p + 1, Len(sorted))

\* the first k elements of logs, sorted by date
RECURSIVE SortPrefix(_, _)
SortPrefix(logs, k) ==
    IF k = 0 THEN << >> ELSE InsertByDate(logs[k], SortPrefix(logs, k - 1))

SortByDate(logs) == SortPrefix(logs, Len(logs))

\* the filter predicate of monthLogs
InCurrentMonth(l) == StartsWithMonth(l.date, currentMonth)

\* logs.filter(l => l.date.startsWith(currentMonth)).sort(by date)
MonthLogsOf(logs) == SortByDate(SelectSeq(logs, InCurrentMonth))

monthLogs == MonthLogsOf(dailyLogs)

\* reduce((sum, l) => sum + l.totalUnits, 0)
RECURSIVE SumUnitsTo(_, _)
SumUnitsTo(logs, k) ==
    IF k = 0 THEN 0 ELSE SumUnitsTo(logs, k - 1) + logs[k].totalUnits

SumUnits(logs) == SumUnitsTo(logs, Len(logs))

\* inventory.reduce((sum, a) => sum + calculateApplianceUnits(a, season) / 30, 0)
RECURSIVE BaselineDaily(_, _)
BaselineDaily(inventory, s) ==
    IF inventory = << >> THEN RInt(0)
    ELSE RAdd(BaselineDaily(SubSeq(inventory, 1, Len(inventory) - 1), s),
              RDivInt(calculateApplianceUnits(inventory[Len(inventory)], s), 30))

\* find(s => s.id === selectedStateId) || INDIAN_STATES[0]
stateTariff ==
    IF \E i \in 1..Len(INDIAN_STATES) : INDIAN_STATES[i].id = selectedStateId
    THEN INDIAN_STATES[CHOOSE i \in 1..Len(INDIAN_STATES) :
                           INDIAN_STATES[i].id = selectedStateId]
    ELSE INDIAN_STATES[1]

\* variant: the inventory baseline is blended into the observed average
AvgUnitsPerDayBlended(totalUnits, daysLogged, baselineDaily) ==
    IF daysLogged > 0
    THEN RDivInt(RAdd(Rat(totalUnits, daysLogged), baselineDaily), 2)
    ELSE baselineDaily

\* daysLogged > 0 ? totalUnits / daysLogged : baselineDaily
AvgUnitsPerDay(totalUnits, daysLogged, baselineDaily) ==
    IF daysLogged > 0 THEN Rat(totalUnits, daysLogged) ELSE baselineDaily

\* variant: stabilised only after the seventh day
IsStabilizedAfterSeven(daysLogged) == daysLogged > 7

\* daysLogged >= 7
IsStabilized(daysLogged) == daysLogged >= 7

\* variant: the score is not capped
ConfidenceScoreUncapped(daysLogged, dim) ==
    IF daysLogged >= 10
    THEN {RAdd(RInt(65), RScale(Rat(daysLogged, dim), 35))}
    ELSE {}

\* daysLogged >= 10 ? Math.min(99, 65 + (daysLogged / daysInMonth) * 35) : null
\* (null is the empty set, a score is the singleton of a rational)
ConfidenceScore(daysLogged, dim) ==
    IF daysLogged >= 10
    THEN {RMin(RInt(99), RAdd(RInt(65), RScale(Rat(daysLogged, dim), 35)))}
    ELSE {}

\* variant: the difference is not clamped at 0
EstRemainderCostUnclamped(projectedBillTotal, mtdBillCost) ==
    RSub(projectedBillTotal.total, mtdBillCost.total)

\* Math.max(0, projectedBillTotal.total - mtdBillCost.total)
EstRemainderCost(projectedBillTotal, mtdBillCost) ==
    RMax(RInt(0), RSub(projectedBillTotal.total, mtdBillCost.total))

\* variant: never crossed while the subsidy type is 'none'
SlabCrossedUnlessNone(totalUnits, config) ==
    config.type # "none" /\ totalUnits > config.limitUnits

\* totalUnits > subsidyConfig.limitUnits
SlabCrossed(totalUnits, config) == totalUnits > config.limitUnits

\* Math.min(totalUnits, subsidyConfig.limitUnits)
SubsidyUsed(totalUnits, config) ==
    IF totalUnits <= config.limitUnits THEN totalUnits ELSE config.limitUnits

SummaryOf(logs, tariff, inventory, config, s) ==
    LET mLogs == MonthLogsOf(logs)
        totalUnits == SumUnits(mLogs)
        daysLogged == Len(mLogs)
        baselineDaily == BaselineDaily(inventory, s)
        avgUnitsPerDay == AvgUnitsPerDay(totalUnits, daysLogged, baselineDaily)
        projectedUnits == RScale(avgUnitsPerDay, daysInMonth)
        projectedBillTotal == calculateProgressiveBill(projectedUnits, tariff)
        mtdBillCost == calculateProgressiveBill(RInt(totalUnits), tariff)
    IN  [month |-> currentMonth,
         totalUnits |-> totalUnits,
         totalCost |-> mtdBillCost.total,
         subsidyLimit |-> config.limitUnits,
         subsidyUsed |-> SubsidyUsed(totalUnits, config),
         slabCrossed |-> SlabCrossed(totalUnits, config),
         projectedBill |-> projectedBillTotal.total,
         projectedUnits |-> projectedUnits,
         confidenceScore |-> ConfidenceScore(daysLogged, daysInMonth),
         isStabilized |-> IsStabilized(daysLogged),
         estRemainderCost |-> EstRemainderCost(projectedBillTotal, mtdBillCost)]

summary == SummaryOf(dailyLogs, stateTariff, appliances, subsidyConfig, season)

\* monthLogs.find(l => l.date === dateStr): the first match, or undefined
\* (undefined is the empty sequence, a found log the one-element sequence)
FindLog(logs, date) ==
    LET IsDate(l) == l.date = date
        found == SelectSeq(logs, IsDate)
    IN  IF found = << >> THEN << >> ELSE << found[1] >>

\* variant: 'critical' only above the limit
DayStatusAboveLimit(cum, config) ==
    IF config.limitUnits = 0 THEN "safe"
    ELSE IF cum > config.limitUnits THEN "critical"
    ELSE IF 100 * cum >= 85 * config.limitUnits THEN "warning"
    ELSE "safe"

\* the status of a logged day whose cumulative units are cum
\* (limit = subsidyConfig.limitUnits || Infinity)
DayStatus(cum, config) ==
    IF config.limitUnits = 0 THEN "safe"
    ELSE IF cum >= config.limitUnits THEN "critical"
    ELSE IF 100 * cum >= 85 * config.limitUnits THEN "warning"
    ELSE "safe"

\* new Date(dateStr) > new Date()
IsFuture(date) == TimeLess(NowTime, DateTime(date))

\* new Date(dateStr) < new Date(new Date().setHours(0, 0, 0, 0))
IsPast(date) == TimeLess(DateTime(date), LocalMidnight)

\* variant: the status is computed for unlogged days too
CalendarDayAlwaysStatus(i, dateStr, log, cumulativeUnits, config) ==
    [date |-> dateStr,
     dayNum |-> i,
     log |-> log,
     status |-> DayStatus(cumulativeUnits, config),
     isFuture |-> IsFuture(dateStr),
     isEstimated |-> IsPast(dateStr) /\ log = << >>,
     cumulativeUnits |-> cumulativeUnits]

\* the day pushed by iteration i, with the value cumulativeUnits has after
\* the iteration kept beside it
CalendarDay(i, dateStr, log, cumulativeUnits, config) ==
    [date |-> dateStr,
     dayNum |-> i,
     log |-> log,
     status |-> IF log # << >> THEN DayStatus(cumulativeUnits, config) ELSE "none",
     isFuture |-> IsFuture(dateStr),
     isEstimated |-> IsPast(dateStr) /\ log = << >>,
     cumulativeUnits |-> cumulativeUnits]

\* if (log) cumulativeUnits += log.totalUnits
AddLogUnits(cumulativeUnits, log) ==
    IF log # << >> THEN cumulativeUnits + log[1].totalUnits ELSE cumulativeUnits

\* the for loop: days i..daysInMonth are pushed onto `days`, cum being the
\* value of cumulativeUnits when iteration i starts
RECURSIVE CalendarLoop(_, _, _, _, _)
CalendarLoop(i, cum, days, mLogs, config) ==
    IF i > daysInMonth THEN days
    ELSE LET log == FindLog(mLogs, DateStr(i))
         IN  CalendarLoop(i + 1, AddLogUnits(cum, log),
                          Append(days, CalendarDay(i, DateStr(i), log,
                                                   AddLogUnits(cum, log), config)),
                          mLogs, config)

CalendarDaysOf(logs, config) ==
    CalendarLoop(1, 0, << >>, MonthLogsOf(logs), config)

calendarDays == CalendarDaysOf(dailyLogs, subsidyConfig)

-----------------------------------------------------------------------------
(* DailyCalendar: the arrays and objects the computation touches *)

\* The heap maps a reference to the array or object it denotes.  The props
\* are references into it; Array.prototype.filter allocates a new array,
\* Array.prototype.sort reorders the array it is called on and returns it.
PropsHeap ==
    [ref \in {"logs", "inventory", "stateTariff", "subsidyConfig"} |->
        CASE ref = "logs" -> dailyLogs
          [] ref = "inventory" -> appliances
          [] ref = "stateTariff" -> stateTariff
          [] ref = "subsidyConfig" -> subsidyConfig]

\* logs.filter(l => l.date.startsWith(currentMonth)): a new array at `fresh`
ArrayFilterMonth(heap, ref, fresh) ==
    [r \in DOMAIN heap \cup {fresh} |->
        IF r = fresh THEN SelectSeq(heap[ref], InCurrentMonth) ELSE heap[r]]

\* array.sort((a, b) => a.date.localeCompare(b.date)): in place
ArraySortByDate(heap, ref) ==
    [heap EXCEPT ![ref] = SortByDate(heap[ref])]

\* variant: the caller's array is sorted, then filtered
MonthLogsRunSortFirst(heap, logsRef) ==
    [heap |-> ArrayFilterMonth(ArraySortByDate(heap, logsRef), logsRef, "monthLogs"),
     monthLogs |-> "monthLogs"]

\* logs.filter(...).sort(...): the heap after the useMemo body ran and the
\* reference it returned
MonthLogsRun(heap, logsRef) ==
    [heap |-> ArraySortByDate(ArrayFilterMonth(heap, logsRef, "monthLogs"),
                              "monthLogs"),
     monthLogs |-> "monthLogs"]

\* the heap after one render: monthLogs as above; summary and calendarDays
\* only read their inputs (reduce, length, find, property reads) and build
\* new objects, the summary record and the `days` array
RenderRun(heap) ==
    LET run == MonthLogsRun(heap, "logs")
    IN  [heap |-> [r \in DOMAIN run.heap \cup {"summary", "days"} |->
                      CASE r = "summary" ->
                               SummaryOf(run.heap["logs"], run.heap["stateTariff"],
                                         run.heap["inventory"],
                                         run.heap["subsidyConfig"], season)
                        [] r = "days" ->
                               CalendarDaysOf(run.heap["logs"],
                                              run.heap["subsidyConfig"])
                        [] OTHER -> run.heap[r]],
         monthLogs |-> run.monthLogs]

-----------------------------------------------------------------------------
(* App: the handlers that change the state *)

\* the instants at which the clock is observed: the evening of 10 April,
\* the evening of 30 April, the small hours of 1 May (UTC)
Instants == {At(4, 10, 20, 0), At(4, 30, 20, 0), At(5, 1, 2, 0)}

Seasons == {"summer", "winter", "monsoon"}
SubsidyTypes == {"none", "government", "company"}

\* useState initial value when nothing is persisted
DefaultSubsidyConfig == [type |-> "none", limitUnits |-> 0]

\* useState initial value when nothing is persisted (ratingKw is a rational)
DefaultSolarConfig == [isInstalled |-> FALSE, ratingKw |-> RInt(3)]

\* profile === null, and what getItem returns for an absent key
Null == "null"

\* localStorage with neither key: eleca_active_session is absent, and so is
\* eleca_app_data (an absent value is the empty sequence, a stored one the
\* one-element sequence)
NoStorage == [session |-> Null, data |-> << >>]

\* localStorage after removeItem of both keys
ClearedStorage == NoStorage

\* the object the persistence effect stringifies under eleca_app_data
AppData(a, st, so, su, se, l, h, d) ==
    [appliances |-> a, selectedStateId |-> st, solarConfig |-> so,
     subsidyConfig |-> su, season |-> se, lang |-> l, history |-> h,
     dailyLogs |-> d]

\* localStorage after the persistence effect ran for a signed-in profile
Stored ==
    [session |-> profile,
     data |-> << AppData(appliances, selectedStateId, solarConfig,
                         subsidyConfig, season, lang, history, dailyLogs) >>]

\* the persistence effect after a render that changed one of its
\* dependencies: if (profile) both keys are written, else nothing is
Persist ==
    storage' =
        IF profile' # Null
        THEN [session |-> profile',
              data |-> << AppData(appliances', selectedStateId', solarConfig',
                                  subsidyConfig', season', lang', history',
                                  dailyLogs') >>]
        ELSE storage

Log(date, units) == [date |-> date, totalUnits |-> units]

\* variant: the log is always added at the end
HandleSaveLogAppend(prev, log) == Append(prev, log)

\* setDailyLogs(prev => exists ? prev.map(replace) : [...prev, log])
HandleSaveLogResult(prev, log) ==
    IF \E k \in 1..Len(prev) : prev[k].date = log.date
    THEN [k \in 1..Len(prev) |-> IF prev[k].date = log.date THEN log ELSE prev[k]]
    ELSE Append(prev, log)

handleSaveLog(log) ==
    /\ dailyLogs' = HandleSaveLogResult(dailyLogs, log)
    /\ UNCHANGED <<subsidyConfig, appliances, season, selectedStateId,
                   now, tz, lenientDate, sessionVars, retryVars, renderVars, formVars, history, solarConfig>>
    /\ Persist

\* a calendar cell is clicked (future cells are disabled), the day editor
\* saves a log for that cell's date
ClickSave(i, u) ==
    /\ i \in 1..daysInMonth
    /\ ~IsFuture(DateStr(i))
    /\ handleSaveLog(Log(DateStr(i), u))

\* the journal actions of the bounded model: a new day only while the list
\* is shorter than MaxLogs, an edit of a logged day always
SaveDay ==
    \E i \in LogDays, u \in UnitChoices :
        /\ \/ Len(dailyLogs) < MaxLogs
           \/ \E k \in 1..Len(dailyLogs) : dailyLogs[k].date = DateStr(i)
        /\ ClickSave(i, u)

\* today's cell (the UTC date) is logged or edited
SaveToday == \E u \in UnitChoices : ClickSave(UtcToday.d, u)

\* prev.slice(0, -1)
HandleUndoLastResult(prev) == SubSeq(prev, 1, Len(prev) - 1)

\* setDailyLogs(prev => prev.slice(0, -1))
handleUndoLast ==
    /\ dailyLogs' = HandleUndoLastResult(dailyLogs)
    /\ UNCHANGED <<subsidyConfig, appliances, season, selectedStateId,
                   now, tz, lenientDate, sessionVars, retryVars, renderVars, formVars, history, solarConfig>>
    /\ Persist

\* setSubsidyConfig(prev => ({ ...prev, type }))
SetSubsidyType ==
    \E type \in SubsidyTypes :
        /\ subsidyConfig' = [subsidyConfig EXCEPT !.type = type]
        /\ UNCHANGED <<dailyLogs, appliances, season, selectedStateId,
                       now, tz, lenientDate, sessionVars, retryVars, renderVars, formVars, history, solarConfig>>
        /\ Persist

\* parseInt of the text of a number input: a digit string is its value,
\* the empty text is NaN (here: no value, the empty set)
RECURSIVE DigitsValue(_)
DigitsValue(text) ==
    IF text = << >> THEN 0
    ELSE 10 * DigitsValue(SubSeq(text, 1, Len(text) - 1)) + text[Len(text)]

ParseInt(text) == IF text = << >> THEN {} ELSE {DigitsValue(text)}

\* parseInt(e.target.value) || 0
ParseIntOrZero(text) ==
    IF ParseInt(text) = {} THEN 0 ELSE CHOOSE v \in ParseInt(text) : TRUE

\* texts typed into the subsidy limit input: cleared, "17" and "20"
LimitTexts == {<< >>, <<1, 7>>, <<2, 0>>}

\* the limit input exists only while the type is not 'none':
\* setSubsidyConfig(prev => ({ ...prev, limitUnits: parseInt(value) || 0 }))
SetSubsidyLimit ==
    \E text \in LimitTexts :
        /\ subsidyConfig.type # "none"
        /\ subsidyConfig' =
               [subsidyConfig EXCEPT !.limitUnits = ParseIntOrZero(text)]
        /\ UNCHANGED <<dailyLogs, appliances, season, selectedStateId,
                       now, tz, lenientDate, sessionVars, retryVars, renderVars, formVars, history, solarConfig>>
        /\ Persist

\* setSeason(s)
SetSeason ==
    \E s \in Seasons :
        /\ season' = s
        /\ UNCHANGED <<dailyLogs, subsidyConfig, appliances, selectedStateId,
                       now, tz, lenientDate, sessionVars, retryVars, renderVars, formVars, history, solarConfig>>
        /\ Persist

\* setSelectedStateId(s.id); setStep('setup')
SelectState ==
    \E id \in StateIds :
        /\ selectedStateId' = id
        /\ step' = "setup"
        /\ UNCHANGED <<dailyLogs, subsidyConfig, appliances, season,
                       now, tz, lenientDate, profile, lang, retryVars, renderVars, formVars, history, solarConfig>>
        /\ Persist

Fan ==
    [id |-> "a1", category |-> "motor", inputMode |-> "standard", watts |-> 75,
     hoursPerDay |-> 8, daysPerMonth |-> 30, quantity |-> 1, annualUnits |-> 0]
AirConditioner ==
    [id |-> "a2", category |-> "cooling", inputMode |-> "standard", watts |-> 1000,
     hoursPerDay |-> 5, daysPerMonth |-> 30, quantity |-> 1, annualUnits |-> 0]

\* what the appliance form submits
ApplianceInputs == {Fan, AirConditioner}

\* variant: the appliance is always appended
HandleAddApplianceAppend(prev, app) == Append(prev, app)

\* setAppliances(prev => exists ? prev.map(replace) : [...prev, app])
HandleAddApplianceResult(prev, app) ==
    IF \E k \in 1..Len(prev) : prev[k].id = app.id
    THEN [k \in 1..Len(prev) |-> IF prev[k].id = app.id THEN app ELSE prev[k]]
    ELSE Append(prev, app)

\* the form's onAdd: the list is updated, the form closes
\* (editingAppliance: undefined is the empty sequence)
handleAddAppliance ==
    \E app \in ApplianceInputs :
        /\ appliances' = HandleAddApplianceResult(appliances, app)
        /\ showAppForm' = FALSE
        /\ editingAppliance' = << >>
        /\ UNCHANGED <<dailyLogs, subsidyConfig, season, selectedStateId,
                       now, tz, lenientDate, sessionVars, retryVars, renderVars, history, solarConfig>>
        /\ Persist

\* setAppliances(prev => prev.filter(a => a.id !== id))
HandleDeleteApplianceResult(prev, id) ==
    LET Keep(a) == a.id # id IN SelectSeq(prev, Keep)

handleDeleteAppliance ==
    \E k \in 1..Len(appliances) :
        /\ appliances' = HandleDeleteApplianceResult(appliances, appliances[k].id)
        /\ UNCHANGED <<dailyLogs, subsidyConfig, season, selectedStateId,
                       now, tz, lenientDate, sessionVars, retryVars, renderVars, formVars, history, solarConfig>>
        /\ Persist

\* the "+" button: setEditingAppliance(undefined); setShowAppForm(true)
OpenAppForm ==
    /\ ~showAppForm
    /\ showAppForm' = TRUE
    /\ editingAppliance' = << >>
    /\ UNCHANGED <<dailyLogs, subsidyConfig, appliances, season, selectedStateId,
                   now, tz, lenientDate, sessionVars, retryVars, renderVars, storeVars>>

\* a card of the list is clicked: setEditingAppliance(app); setShowAppForm(true)
handleEditAppliance ==
    \E k \in 1..Len(appliances) :
        /\ ~showAppForm
        /\ editingAppliance' = << appliances[k] >>
        /\ showAppForm' = TRUE
        /\ UNCHANGED <<dailyLogs, subsidyConfig, appliances, season,
                       selectedStateId, now, tz, lenientDate, sessionVars,
                       retryVars, renderVars, storeVars>>

\* hours per day typed into the form
HourChoices == {2, 6, 10}

\* the open form submits a new appliance
SubmitNewAppliance ==
    /\ showAppForm
    /\ editingAppliance = << >>
    /\ handleAddAppliance

\* the open form submits its initial data with the hours changed: onAdd,
\* that is handleAddAppliance, receives an appliance with the id it had
SubmitEditedAppliance ==
    \E h \in HourChoices :
        /\ showAppForm
        /\ editingAppliance # << >>
        /\ appliances' =
               HandleAddApplianceResult(appliances,
                   [editingAppliance[1] EXCEPT !.hoursPerDay = h])
        /\ showAppForm' = FALSE
        /\ editingAppliance' = << >>
        /\ UNCHANGED <<dailyLogs, subsidyConfig, season, selectedStateId,
                       now, tz, lenientDate, sessionVars, retryVars, renderVars, history, solarConfig>>
        /\ Persist

\* onCancel: setShowAppForm(false)
CancelAppForm ==
    /\ showAppForm
    /\ showAppForm' = FALSE
    /\ UNCHANGED <<dailyLogs, subsidyConfig, appliances, season, selectedStateId,
                   now, tz, lenientDate, sessionVars, retryVars, renderVars,
                   editingAppliance, storeVars>>

\* the delete button of a card (the open form covers the list)
ClickDeleteAppliance ==
    /\ ~showAppForm
    /\ handleDeleteAppliance

\* time passes between two renders
Tick ==
    \E t \in Instants :
        /\ t > now
        /\ now' = t
        /\ UNCHANGED <<dailyLogs, subsidyConfig, appliances, season,
                       selectedStateId, tz, lenientDate, sessionVars, retryVars, renderVars, formVars, storeVars>>

-----------------------------------------------------------------------------
(* The remote service: retryWithBackoff *)

\* the default values of the parameters retries and backoff
DefaultRetries == 3
DefaultBackoff == 1000

\* whether the text holds the pattern at some position: text.includes(pattern)
Includes(text, pattern) ==
    \E k \in 0..(Len(text) - Len(pattern)) :
        SubSeq(text, k + 1, k + Len(pattern)) = pattern

\* An error is what the handler reads of it: error?.status, error?.code (0
\* when the property is absent) and String(error), a sequence of characters.
ErrorOf(status, code, text) == [status |-> status, code |-> code, text |-> text]

\* errors the remote call raises: an HTTP 500 by status, by code and by
\* message only, a quota error, and a timeout whose message reads "15000ms"
RemoteErrors ==
    {ErrorOf(500, 0, <<"E", "r", "r">>),
     ErrorOf(0, 500, <<"E", "r", "r">>),
     ErrorOf(0, 0, <<"H", "T", "T", "P", " ", "5", "0", "0">>),
     ErrorOf(429, 429, <<"q", "u", "o", "t", "a">>),
     ErrorOf(0, 0, <<"1", "5", "0", "0", "0", "m", "s">>)}

\* how a promise settles: fulfilled with a value, or rejected with an error
Fulfilled(value) == [fulfilled |-> TRUE, value |-> value]
Rejected(error) == [fulfilled |-> FALSE, error |-> error]

\* a JavaScript value: its type and the characters it is written with
Value(type, of) == [type |-> type, of |-> of]
JsNull == Value("null", << >>)

\* the exported functions; each of them calls retryWithBackoff once
Services == {"getTimedInsights", "extractBeeLabelData", "extractBillData"}

\* "No insights available right now."
NoInsightsText == <<"N", "o", " ", "i", "n", "s", "i", "g", "h", "t", "s">>

\* "Insights are currently offline. Check back later for a fresh analysis."
OfflineText == <<"o", "f", "f", "l", "i", "n", "e">>

\* response.text of the replies: none, advice in prose ("Rs500"), a JSON
\* object between white space, and a JSON object cut short
ResponseTexts ==
    {<< >>,
     <<"R", "s", "5", "0", "0">>,
     <<" ", "{", "}", " ">>,
     <<"{">>}

\* text.trim()
RECURSIVE Trim(_)
Trim(text) ==
    IF text = << >> THEN text
    ELSE IF Head(text) = " " THEN Trim(Tail(text))
    ELSE IF text[Len(text)] = " " THEN Trim(SubSeq(text, 1, Len(text) - 1))
    ELSE text

\* JSON.parse(text) for the texts above: the value of an empty object or of
\* a number, and nothing when it throws a SyntaxError
JsonParse(text) ==
    IF text = <<"{", "}">> THEN {Value("object", text)}
    ELSE IF text # << >> /\ \A i \in 1..Len(text) :
                                text[i] \in {"0", "1", "2", "3", "4", "5", "6", "7", "8", "9"}
    THEN {Value("number", text)}
    ELSE {}

\* the SyntaxError of JSON.parse(text): whether String(error) quotes the text
\* depends on the engine
SyntaxErrors(text) ==
    {ErrorOf(0, 0, <<"S", "y", "n", "t", "a", "x">>),
     ErrorOf(0, 0, <<"S", "y", "n", "t", "a", "x", " ">> \o text)}

\* how ai.models.generateContent settles
Replies ==
    {Fulfilled(Value("string", text)) : text \in ResponseTexts} \cup
    {Rejected(error) : error \in RemoteErrors}

\* how the fn handed to retryWithBackoff settles on a reply: the insight
\* function returns response.text || the 'no insights' text; the extraction
\* functions return null without a text and JSON.parse(response.text.trim())
\* with one; a rejected generateContent rejects fn
FnOutcomes(f, reply) ==
    IF ~reply.fulfilled THEN {reply}
    ELSE LET text == reply.value.of
         IN  IF f = "getTimedInsights"
             THEN {Fulfilled(IF text = << >> THEN Value("string", NoInsightsText)
                             ELSE reply.value)}
             ELSE IF text = << >> THEN {Fulfilled(JsNull)}
             ELSE IF JsonParse(Trim(text)) # {}
             THEN {Fulfilled(v) : v \in JsonParse(Trim(text))}
             ELSE {Rejected(e) : e \in SyntaxErrors(Trim(text))}

\* every way fn can settle
FnSettlements(f) == UNION {FnOutcomes(f, reply) : reply \in Replies}

\* what the catch block of the exported function returns
Fallback(f) ==
    IF f = "getTimedInsights" THEN Value("string", OfflineText) ELSE JsNull

\* variant: the exported function lets the error through
CaughtRethrown(f, error) == Rejected(error)

\* try { return await retryWithBackoff(...) } catch (error) { return fallback }
\* when retryWithBackoff rejects with the error
Caught(f, error) == Fulfilled(Fallback(f))

\* variant: every failure is retried
LooksLikeAnyFailure(error) == TRUE

\* error?.status === 500 || error?.code === 500 || String(error).includes('500')
LooksLike500(error) ==
    \/ error.status = 500
    \/ error.code = 500
    \/ Includes(error.text, <<"5", "0", "0">>)

\* variant: the delay grows by the first delay
NextBackoffLinear(b) == b + DefaultBackoff

\* backoff * 2
NextBackoff(b) == b * 2

\* one of the exported functions is called; it calls retryWithBackoff(fn)
\* with the default parameters: fn is invoked and awaited
CallRetryWithBackoff ==
    \E f \in Services :
        /\ pc = "idle"
        /\ pc' = "calling"
        /\ caller' = f
        /\ outcome' = << >>
        /\ retries' = DefaultRetries
        /\ backoff' = DefaultBackoff
        /\ calls' = 1
        /\ waits' = << >>
        /\ errors' = << >>
        /\ settled' = << >>
        /\ UNCHANGED <<dailyLogs, subsidyConfig, appliances, season,
                       selectedStateId, now, tz, lenientDate, sessionVars,
                       renderVars, formVars, storeVars>>

\* the awaited fn() fulfils: return await fn(), and the exported function
\* returns that value
FnFulfils ==
    \E o \in FnSettlements(caller) :
        /\ pc = "calling"
        /\ o.fulfilled
        /\ pc' = "returned"
        /\ settled' = << o >>
        /\ outcome' = << o >>
        /\ UNCHANGED <<dailyLogs, subsidyConfig, appliances, season,
                       selectedStateId, now, tz, lenientDate, sessionVars,
                       renderVars, formVars, retries, backoff, calls, waits,
                       errors, caller, storeVars>>

\* the awaited fn() rejects: the catch block of retryWithBackoff either
\* starts the timer of the backoff or rethrows, and then the catch block of
\* the exported function takes over
FnRejects ==
    \E o \in FnSettlements(caller) :
        /\ pc = "calling"
        /\ ~o.fulfilled
        /\ errors' = Append(errors, o.error)
        /\ IF retries > 0 /\ LooksLike500(o.error)
           THEN /\ pc' = "sleeping"
                /\ settled' = settled
                /\ outcome' = outcome
           ELSE /\ pc' = "thrown"
                /\ settled' = << Rejected(o.error) >>
                /\ outcome' = << Caught(caller, o.error) >>
        /\ UNCHANGED <<dailyLogs, subsidyConfig, appliances, season,
                       selectedStateId, now, tz, lenientDate, sessionVars,
                       renderVars, formVars, retries, backoff, calls, waits,
                       caller, storeVars>>

\* the timer fires after `backoff` ms: retryWithBackoff(fn, retries - 1,
\* backoff * 2) invokes fn again
TimerFires ==
    /\ pc = "sleeping"
    /\ waits' = Append(waits, backoff)
    /\ retries' = retries - 1
    /\ backoff' = NextBackoff(backoff)
    /\ calls' = calls + 1
    /\ pc' = "calling"
    /\ UNCHANGED <<dailyLogs, subsidyConfig, appliances, season, selectedStateId,
                   now, tz, lenientDate, sessionVars, renderVars, formVars,
                   errors, settled, caller, outcome, storeVars>>

\* the props DailyCalendar computes from (lang only selects the texts)
RenderProps ==
    [logs |-> dailyLogs, stateTariff |-> stateTariff, inventory |-> appliances,
     subsidyConfig |-> subsidyConfig, season |-> season]

\* React calls the component function: monthLogs, summary and calendarDays
\* are computed from the props and from new Date(); the observer keeps them
Render ==
    /\ lastRender' = << [props |-> RenderProps,
                         summary |-> summary,
                         calendarDays |-> calendarDays] >>
    /\ UNCHANGED <<dailyLogs, subsidyConfig, appliances, season, selectedStateId,
                   now, tz, lenientDate, sessionVars, retryVars, formVars, storeVars>>

-----------------------------------------------------------------------------
(* The session and the remote call while the journal is studied *)

\* the accounts that sign in
Profiles == {"asha", "ravi"}

\* a session restored from storage, the user having moved on to `screen`.
\* The journal specifications below do not follow the user from screen to
\* screen: a handler fires whichever screen is selected, so they allow every
\* order of handler calls the screens allow, and more.
SignedInAt(screen) ==
    /\ profile = "asha"
    /\ step = screen
    /\ lang = "en"
    /\ history = << >>
    /\ solarConfig = DefaultSolarConfig
    /\ storage = Stored

\* no call of retryWithBackoff is under way
NoCall ==
    /\ pc = "idle"
    /\ retries = 0
    /\ backoff = 0
    /\ calls = 0
    /\ waits = << >>
    /\ errors = << >>
    /\ settled = << >>
    /\ caller = "none"
    /\ outcome = << >>
    /\ lastRender = << >>
    /\ showAppForm = FALSE
    /\ editingAppliance = << >>

-----------------------------------------------------------------------------
(* The journal while the clock runs *)

\* dailyLogs persisted by an earlier session: nothing, or the first of May
\* of last year
PersistedLogs ==
    {<< >>, << Log([y |-> EpochYear - 1, m |-> 5, d |-> 1], 9) >>}

\* subsidyConfig persisted by an earlier session: nothing, or a limit of 17
PersistedSubsidyConfigs ==
    {DefaultSubsidyConfig, [type |-> "government", limitUnits |-> 17]}

Init ==
    /\ dailyLogs \in PersistedLogs
    /\ subsidyConfig \in PersistedSubsidyConfigs
    /\ appliances = << >>
    /\ season = "summer"
    /\ selectedStateId = INDIAN_STATES[1].id
    /\ now \in Instants
    /\ tz \in TzOffsets
    /\ lenientDate \in BOOLEAN
    /\ SignedInAt("calendar")
    /\ NoCall

Next ==
    \/ SaveDay
    \/ handleUndoLast
    \/ Tick

Spec == Init /\ [][Next]_vars

-----------------------------------------------------------------------------
(* The journal and the subsidy setup within one month *)

InitSubsidy ==
    /\ dailyLogs \in PersistedLogs
    /\ subsidyConfig = DefaultSubsidyConfig
    /\ appliances = << >>
    /\ season = "summer"
    /\ selectedStateId = INDIAN_STATES[1].id
    /\ now \in Instants
    /\ tz \in TzOffsets
    /\ lenientDate \in BOOLEAN
    /\ SignedInAt("calendar")
    /\ NoCall

NextSubsidy ==
    \/ SaveDay
    \/ handleUndoLast
    \/ SetSubsidyType
    \/ SetSubsidyLimit

SpecSubsidy == InitSubsidy /\ [][NextSubsidy]_vars

-----------------------------------------------------------------------------
(* The monthly summary over a journal kept day by day *)

\* days 1..n of the current month, each with u units
RECURSIVE Journal(_, _)
Journal(n, u) ==
    IF n = 0 THEN << >> ELSE Append(Journal(n - 1, u), Log(DateStr(n), u))

\* the instants at which the summary is computed: those above and the
\* evening of 31 May (UTC)
SummaryInstants == Instants \cup {At(5, 31, 20, 0)}

InitSummary ==
    /\ now \in SummaryInstants
    /\ tz \in TzOffsets
    /\ lenientDate = FALSE
    /\ \E n \in 0..UtcToday.d, u \in UnitChoices : dailyLogs = Journal(n, u)
    /\ subsidyConfig = DefaultSubsidyConfig
    /\ appliances = << >>
    /\ season = "summer"
    /\ selectedStateId = INDIAN_STATES[1].id
    /\ SignedInAt("setup")
    /\ NoCall

NextSummary ==
    \/ SaveToday
    \/ SetSeason
    \/ SelectState
    \/ handleAddAppliance
    \/ handleDeleteAppliance

SpecSummary == InitSummary /\ [][NextSummary]_vars

-----------------------------------------------------------------------------
(* Properties of the monthly summary *)

\* the positions in dailyLogs of the logs dated in the current month
MonthIndexes ==
    {k \in 1..Len(dailyLogs) :
        /\ dailyLogs[k].date.y = currentMonth.y
        /\ dailyLogs[k].date.m = currentMonth.m}

\* the sum of totalUnits over a set S of positions of dailyLogs
RECURSIVE UnitsAtUpTo(_, _)
UnitsAtUpTo(S, k) ==
    IF k = 0 THEN 0
    ELSE UnitsAtUpTo(S, k - 1) + (IF k \in S THEN dailyLogs[k].totalUnits ELSE 0)

UnitsAt(S) == UnitsAtUpTo(S, Len(dailyLogs))

\* the sum over the inventory of calculateApplianceUnits(a, season)
RECURSIVE InventoryUnits(_)
InventoryUnits(S) ==
    IF S = {} THEN RInt(0)
    ELSE LET k == CHOOSE x \in S : TRUE
         IN  RAdd(calculateApplianceUnits(appliances[k], season),
                  InventoryUnits(S \ {k}))

\* another inventory the summary is recomputed with
OtherInventory ==
    IF appliances = << >> THEN << AirConditioner, Fan >> ELSE << >>

\* C1: projectedUnits is (totalUnits / daysLogged) * daysInMonth when the
\* current month has a log, and (inventory units / 30) * daysInMonth when it
\* has none; with a log the inventory has no influence; 10 logged days
\* totalling 80 units in a 30-day month project to 240 units.
C1_ProjectedUnits ==
    LET daysLogged == Cardinality(MonthIndexes)
        totalUnits == UnitsAt(MonthIndexes)
        projectedUnits == summary.projectedUnits
    IN  /\ daysLogged > 0 =>
              /\ REq(projectedUnits, Rat(totalUnits * daysInMonth, daysLogged))
              /\ SummaryOf(dailyLogs, stateTariff, OtherInventory, subsidyConfig,
                           season).projectedUnits = projectedUnits
        /\ daysLogged = 0 =>
              REq(projectedUnits,
                  RScale(RDivInt(InventoryUnits(1..Len(appliances)), 30),
                         daysInMonth))
        /\ (daysLogged = 10 /\ totalUnits = 80 /\ daysInMonth = 30) =>
              projectedUnits = RInt(240)

\* ten logged days totalling 80 units in a 30-day month, with an inventory
C1_Witness ==
    /\ Cardinality(MonthIndexes) = 10
    /\ UnitsAt(MonthIndexes) = 80
    /\ daysInMonth = 30
    /\ appliances # << >>
    /\ summary.projectedUnits = RInt(240)

\* for every length of month the score does not decrease from one number of
\* logged days to the next
ConfidenceScoreMonotone ==
    \A dim \in 28..31 : \A a \in 10..31 :
        \A ca \in ConfidenceScore(a, dim), cb \in ConfidenceScore(a + 1, dim) :
            RLeq(ca, cb)

\* C5: confidenceScore is null below 10 logged days, otherwise
\* min(99, 65 + (daysLogged / daysInMonth) * 35); it never exceeds 99 and,
\* for a fixed daysInMonth, does not decrease from one value of daysLogged
\* to the next.
C5_ConfidenceScore ==
    LET daysLogged == Cardinality(MonthIndexes)
        exact == Rat(65 * daysInMonth + 35 * daysLogged, daysInMonth)
        confidenceScore == summary.confidenceScore
    IN  /\ daysLogged < 10 => confidenceScore = {}
        /\ daysLogged >= 10 =>
              /\ confidenceScore # {}
              /\ \A c \in confidenceScore :
                     /\ REq(c, IF RLeq(exact, RInt(99)) THEN exact ELSE RInt(99))
                     /\ RLeq(c, RInt(99))
        /\ ConfidenceScoreMonotone

\* every day of the month is logged and the score is the cap
C5_Witness ==
    /\ Cardinality(MonthIndexes) = daysInMonth
    /\ summary.confidenceScore = {RInt(99)}

\* C6: isStabilized holds exactly when the current month has at least 7
\* distinct log entries, and a non-null confidenceScore implies isStabilized.
C6_Stabilized ==
    LET dates == {dailyLogs[k].date : k \in MonthIndexes}
        s == summary
    IN  /\ s.isStabilized <=> Cardinality(dates) >= 7
        /\ s.confidenceScore # {} => s.isStabilized

\* exactly seven days are logged: stabilised, no confidence score yet
C6_Witness ==
    /\ Cardinality({dailyLogs[k].date : k \in MonthIndexes}) = 7
    /\ summary.isStabilized
    /\ summary.confidenceScore = {}

\* C7: totalCost is the slab engine's total for totalUnits, projectedBill is
\* the same engine's total for projectedUnits, and estRemainderCost is
\* max(0, projectedBill - totalCost), never negative.
C7_Costs ==
    LET s == summary
        mtd == calculateProgressiveBill(RInt(UnitsAt(MonthIndexes)), stateTariff)
        projected == calculateProgressiveBill(s.projectedUnits, stateTariff)
        difference == RSub(s.projectedBill, s.totalCost)
    IN  /\ s.totalCost = mtd.total
        /\ s.projectedBill = projected.total
        /\ REq(s.estRemainderCost,
               IF RLeq(RInt(0), difference) THEN difference ELSE RInt(0))
        /\ RLeq(RInt(0), s.estRemainderCost)

\* more days are logged than daysInMonth counts, so the projected bill is
\* below the month-to-date cost and the remainder is clamped to 0
C7_Witness ==
    /\ RLess(summary.projectedBill, summary.totalCost)
    /\ summary.estRemainderCost = RInt(0)

-----------------------------------------------------------------------------
(* Properties of the calendar and of the subsidy fields *)

\* the units of the current month's logs dated on day i or earlier
CumulativeThrough(i) ==
    LET inMonth == MonthIndexes
    IN  UnitsAt({k \in inMonth : dailyLogs[k].date.d <= i})

\* whether dailyLogs holds a log for day i of the current month
Logged(i) == \E k \in 1..Len(dailyLogs) : dailyLogs[k].date = DateStr(i)

\* the status the thresholds give to cumulative units cum under limit:
\* below 0.85 * limit safe, from there up to the limit warning, else critical
ThresholdStatus(cum, limit) ==
    IF cum >= limit THEN "critical"
    ELSE IF 100 * cum >= 85 * limit THEN "warning"
    ELSE "safe"

\* C2 as stated: every logged day's status follows the thresholds against
\* limitUnits, for every value of limitUnits, 0 included.
C2_StatusForEveryLimit ==
    LET days == calendarDays
    IN  \A i \in 1..Len(days) :
            Logged(i) =>
                days[i].status =
                    ThresholdStatus(CumulativeThrough(i), subsidyConfig.limitUnits)

\* C2 as amended: for a limitUnits other than 0 every logged day's status
\* follows the thresholds against limitUnits applied to the cumulative units
\* of the logged days up to and including it; when limitUnits is 0 every
\* logged day is 'safe'.
C2_StatusByLimit ==
    LET days == calendarDays
    IN  \A i \in 1..Len(days) :
            Logged(i) =>
                days[i].status =
                    IF subsidyConfig.limitUnits = 0 THEN "safe"
                    ELSE ThresholdStatus(CumulativeThrough(i),
                                         subsidyConfig.limitUnits)

\* three logged days under a limit that is not 0: the first 'safe', the
\* second 'warning', the third 'critical'
C2_Witness ==
    LET days == calendarDays
    IN  \E i \in 1..Len(days), j \in 1..Len(days), k \in 1..Len(days) :
            /\ i < j /\ j < k
            /\ subsidyConfig.limitUnits # 0
            /\ days[i].status = "safe"
            /\ days[j].status = "warning"
            /\ days[k].status = "critical"

\* C3: with subsidy type 'none' no subsidy logic applies: subsidyUsed is 0,
\* slabCrossed is false and no calendar day is 'warning' or 'critical'.
C3_NoneAppliesNoSubsidy ==
    subsidyConfig.type = "none" =>
        LET s == summary
            days == calendarDays
        IN  /\ s.subsidyUsed = 0
            /\ ~s.slabCrossed
            /\ \A i \in 1..Len(days) : days[i].status \notin {"warning", "critical"}

\* C4: slabCrossed holds exactly when the month's totalUnits exceeds
\* limitUnits, whatever the subsidy type; with type 'none' and limit 0 it
\* holds exactly when some units are logged.
C4_SlabCrossed ==
    LET s == summary
        totalUnits == UnitsAt(MonthIndexes)
    IN  /\ s.slabCrossed <=> totalUnits > subsidyConfig.limitUnits
        /\ (subsidyConfig.type = "none" /\ subsidyConfig.limitUnits = 0) =>
               (s.slabCrossed <=> totalUnits > 0)

\* subsidy disabled, default limit, some units logged: slabCrossed is true
C4_Witness ==
    /\ subsidyConfig = DefaultSubsidyConfig
    /\ UnitsAt(MonthIndexes) > 0
    /\ summary.slabCrossed

\* C8: totalUnits is the sum over exactly the logs dated in the current
\* month; logs of other months contribute neither to totalUnits, nor to the
\* number of logged days, nor to any calendar day's cumulative units.
C8_OnlyCurrentMonth ==
    LET s == summary
        days == calendarDays
        mLogs == monthLogs
    IN  /\ s.totalUnits = UnitsAt(MonthIndexes)
        /\ Len(mLogs) = Cardinality(MonthIndexes)
        /\ {mLogs[k] : k \in 1..Len(mLogs)} = {dailyLogs[k] : k \in MonthIndexes}
        /\ \A i \in 1..Len(days) : days[i].cumulativeUnits = CumulativeThrough(i)

\* the list holds a log of the current month, a log of another month of
\* this year and a log of the same month of last year
C8_Witness ==
    /\ MonthIndexes # {}
    /\ \E k \in 1..Len(dailyLogs) :
           /\ dailyLogs[k].date.y = currentMonth.y
           /\ dailyLogs[k].date.m # currentMonth.m
    /\ \E k \in 1..Len(dailyLogs) :
           /\ dailyLogs[k].date.y # currentMonth.y
           /\ dailyLogs[k].date.m = currentMonth.m
    /\ summary.totalUnits = UnitsAt(MonthIndexes)

\* C9: a day without a log has status 'none' and leaves the cumulative
\* units as the day before left them.
C9_UnloggedDay ==
    LET days == calendarDays
    IN  \A i \in 1..Len(days) :
            ~Logged(i) =>
                /\ days[i].status = "none"
                /\ days[i].cumulativeUnits =
                       IF i = 1 THEN 0 ELSE days[i - 1].cumulativeUnits

\* an unlogged day lies between a day on which the cumulative units reached
\* the limit and a later logged day
C9_Witness ==
    LET days == calendarDays
    IN  \E i \in 1..Len(days), j \in 1..Len(days) :
            /\ 1 < i /\ i < j
            /\ ~Logged(i) /\ Logged(j)
            /\ subsidyConfig.limitUnits > 0
            /\ days[i - 1].cumulativeUnits >= subsidyConfig.limitUnits
            /\ days[i].status = "none"
            /\ days[j].cumulativeUnits =
                   days[i - 1].cumulativeUnits + days[j].log[1].totalUnits

\* a date strictly earlier than another
DateBefore(a, b) == DateLeq(a, b) /\ a # b

\* C10: no day is both isFuture and isEstimated; a day is isEstimated only
\* if it has no log and its date is strictly before today; a day whose date
\* is after now is isFuture; today's day is neither future nor estimated.
C10_FutureAndEstimated ==
    LET days == calendarDays
    IN  \A i \in 1..Len(days) :
            /\ ~(days[i].isFuture /\ days[i].isEstimated)
            /\ days[i].isEstimated =>
                   ~Logged(i) /\ DateBefore(days[i].date, LocalToday)
            /\ TimeLess(NowTime, DateTime(days[i].date)) => days[i].isFuture
            /\ days[i].date = LocalToday =>
                   ~days[i].isFuture /\ ~days[i].isEstimated


-----------------------------------------------------------------------------
(* The calendar screen rendered again and again *)

InitRender ==
    /\ dailyLogs = << >>
    /\ subsidyConfig \in PersistedSubsidyConfigs
    /\ appliances = << >>
    /\ season = "summer"
    /\ selectedStateId = INDIAN_STATES[1].id
    /\ now \in Instants
    /\ tz \in TzOffsets
    /\ lenientDate \in BOOLEAN
    /\ SignedInAt("calendar")
    /\ NoCall

NextRender ==
    \/ Render
    \/ SaveToday
    \/ Tick

SpecRender == InitRender /\ [][NextRender]_vars

\* C11: computed twice from identical inputs (logs, tariff, inventory,
\* subsidyConfig, season) the summary and the calendar days are identical:
\* what the last render computed from the props of now is what a render
\* computes now.
C11_SameInputsSameOutput ==
    \A r \in {lastRender[k] : k \in 1..Len(lastRender)} :
        r.props = RenderProps =>
            /\ r.summary = summary
            /\ r.calendarDays = calendarDays

\* C12: computing monthLogs, the summary and the calendar days leaves the
\* caller's logs array (order and contents), the inventory, the tariff and
\* the subsidy configuration as they were; the sorted month's logs are a
\* separate array.
C12_InputsNotMutated ==
    LET before == PropsHeap
        run == RenderRun(before)
    IN  /\ \A ref \in DOMAIN before : run.heap[ref] = before[ref]
        /\ run.monthLogs \notin DOMAIN before
        /\ run.heap[run.monthLogs] = monthLogs
        /\ run.heap["summary"] = summary
        /\ run.heap["days"] = calendarDays

\* the caller's logs are not in date order, the month's logs are, and the
\* caller's array still holds the order it was given in
C12_Witness ==
    /\ Len(dailyLogs) >= 2
    /\ monthLogs # SelectSeq(dailyLogs, InCurrentMonth)
    /\ RenderRun(PropsHeap).heap["logs"] = dailyLogs
    /\ RenderRun(PropsHeap).heap["monthLogs"] = SortByDate(dailyLogs)

-----------------------------------------------------------------------------
(* The inventory screen *)

InitInventory ==
    /\ dailyLogs = << >>
    /\ subsidyConfig = DefaultSubsidyConfig
    /\ appliances = << >>
    /\ season = "summer"
    /\ selectedStateId = INDIAN_STATES[1].id
    /\ now = At(4, 10, 20, 0)
    /\ tz = 330
    /\ lenientDate = FALSE
    /\ SignedInAt("appliances")
    /\ NoCall

NextInventory ==
    \/ OpenAppForm
    \/ handleEditAppliance
    \/ SubmitNewAppliance
    \/ SubmitEditedAppliance
    \/ CancelAppForm
    \/ ClickDeleteAppliance

SpecInventory == InitInventory /\ [][NextInventory]_vars

\* the appliances the form can hand to onAdd: the new ones, and every one
\* of the list with its hours changed
FormOutputs ==
    ApplianceInputs \cup
        {[appliances[k] EXCEPT !.hoursPerDay = h] :
            k \in 1..Len(appliances), h \in HourChoices}

\* the positions of `list` holding the id
PositionsOf(list, id) == {k \in 1..Len(list) : list[k].id = id}

\* C13: no two appliances of the inventory share an id; handleAddAppliance
\* with an id of the list replaces that entry in place (same position, same
\* length, the others untouched) and with a new id appends;
\* handleDeleteAppliance removes exactly the entry with the id and keeps the
\* others in their order.
C13_UniqueIds ==
    /\ \A j \in 1..Len(appliances), k \in 1..Len(appliances) :
           appliances[j].id = appliances[k].id => j = k
    /\ \A app \in FormOutputs :
           LET after == HandleAddApplianceResult(appliances, app)
               at == PositionsOf(appliances, app.id)
           IN  IF at # {}
               THEN /\ Len(after) = Len(appliances)
                    /\ \A k \in at : after[k] = app
                    /\ \A k \in (1..Len(appliances)) \ at : after[k] = appliances[k]
               ELSE /\ Len(after) = Len(appliances) + 1
                    /\ after[Len(after)] = app
                    /\ SubSeq(after, 1, Len(appliances)) = appliances
    /\ \A k \in 1..Len(appliances) :
           HandleDeleteApplianceResult(appliances, appliances[k].id)
               = SubSeq(appliances, 1, k - 1)
                     \o SubSeq(appliances, k + 1, Len(appliances))

\* the first of two appliances was edited: it kept its place and its id,
\* the list its length
C13_Witness ==
    /\ Len(appliances) = 2
    /\ appliances[1].id = Fan.id
    /\ appliances[1] # Fan
    /\ appliances[2] = AirConditioner
    /\ ~showAppForm

-----------------------------------------------------------------------------
(* One remote call *)

InitRetry ==
    /\ dailyLogs = << >>
    /\ subsidyConfig = DefaultSubsidyConfig
    /\ appliances = << >>
    /\ season = "summer"
    /\ selectedStateId = INDIAN_STATES[1].id
    /\ now = At(4, 10, 20, 0)
    /\ tz = 330
    /\ lenientDate = FALSE
    /\ SignedInAt("bill")
    /\ NoCall

NextRetry ==
    \/ CallRetryWithBackoff
    \/ FnFulfils
    \/ FnRejects
    \/ TimerFires

\* every invocation of fn settles, and a timer that was set fires
SpecRetry ==
    /\ InitRetry
    /\ [][NextRetry]_vars
    /\ WF_vars(FnFulfils \/ FnRejects)
    /\ WF_vars(TimerFires)

\* the call has returned a value or thrown an error
RetrySettled == pc \in {"returned", "thrown"}

\* the delays of the default policy, in order
DefaultWaits == << DefaultBackoff, 2 * DefaultBackoff, 4 * DefaultBackoff >>

\* fn was invoked at most 4 times, the delays slept so far are the first of
\* 1000, 2000, 4000, one per retry, and a returned value is the value of the
\* first invocation that fulfilled
RetryPolicy ==
    /\ calls <= 1 + DefaultRetries
    /\ Len(waits) <= Len(DefaultWaits)
    /\ waits = SubSeq(DefaultWaits, 1, Len(waits))
    /\ \A k \in 2..Len(waits) : waits[k] = 2 * waits[k - 1]
    /\ pc \in {"calling", "returned", "thrown"} => calls = Len(waits) + 1
    /\ pc = "returned" =>
           /\ Len(settled) = 1
           /\ settled[1].fulfilled
           /\ Len(errors) = calls - 1
    /\ pc = "thrown" =>
           /\ Len(settled) = 1
           /\ ~settled[1].fulfilled
           /\ Len(errors) = calls

\* C14: with the defaults fn is invoked at most 4 times, the waits before the
\* retries are 1000, 2000 and 4000 ms, each double the previous, and a call
\* always ends, returning the first successful result or rejecting, provided
\* each invocation of fn settles.
C14_RetryPolicy ==
    /\ []RetryPolicy
    /\ (pc = "calling") ~> RetrySettled

\* all retries were used: four invocations, delays of 1000, 2000 and 4000,
\* and the call rejected
C14_Witness ==
    /\ pc = "thrown"
    /\ calls = 4
    /\ waits = << 1000, 2000, 4000 >>

-----------------------------------------------------------------------------
(* Properties of the progressive bill *)

\* the tariff with the fixed charge, the inner slab bounds (ascending) and
\* one rate per slab: slabs are contiguous from 0, the last one is unbounded
TariffWith(fixedCharge, bounds, rates) ==
    [id |-> "t", fixedCharge |-> fixedCharge,
     slabs |-> [i \in 1..Len(rates) |->
                   Slab(IF i = 1 THEN 0 ELSE bounds[i - 1],
                        i < Len(rates),
                        IF i < Len(rates) THEN bounds[i] ELSE 0,
                        rates[i])]]

FixedCharges == {0, 50}
SlabRates == {0, 3, 5, 7}
SlabBounds == {<< >>, << 100 >>, << 300 >>, << 100, 300 >>}

\* valid tariffs: contiguous ascending slabs, one unbounded final slab,
\* non-negative rates in any order
ValidTariffs ==
    UNION {{TariffWith(f, b, r) :
               f \in FixedCharges, r \in [1..(Len(b) + 1) -> SlabRates]} :
           b \in SlabBounds}

\* the catalog's tariffs and the valid tariffs above
Tariffs == {INDIAN_STATES[i] : i \in 1..Len(INDIAN_STATES)} \cup ValidTariffs

\* using nothing costs the fixed charge, under every tariff
BillOfNothing ==
    \A t \in Tariffs :
        calculateProgressiveBill(RInt(0), t).total = RInt(t.fixedCharge)

\* C15: when the logs of the month sum to 0 units the month-to-date cost
\* shown is the fixed charge of the selected tariff, and for every valid
\* tariff the bill of 0 units has total = fixedCharge
C15_ZeroUnitsFixedCharge ==
    /\ UnitsAt(MonthIndexes) = 0 =>
           LET s == summary
           IN  /\ s.totalUnits = 0
               /\ s.totalCost = RInt(stateTariff.fixedCharge)
    /\ BillOfNothing

\* nothing is logged in the current month under a tariff with a fixed
\* charge, and the month-to-date cost is that charge
C15_Witness ==
    /\ MonthIndexes = {}
    /\ stateTariff.fixedCharge = 50
    /\ summary.totalCost = RInt(50)

\* consumptions around every slab bound, in ascending order
UnitGrid == << 0, 1, 50, 99, 100, 101, 250, 299, 300, 301, 400 >>

\* the total never decreases from one consumption of the grid to the next
BillMonotone ==
    \A t \in Tariffs : \A k \in 1..(Len(UnitGrid) - 1) :
        RLeq(calculateProgressiveBill(RInt(UnitGrid[k]), t).total,
             calculateProgressiveBill(RInt(UnitGrid[k + 1]), t).total)

\* the number of logs of the current month
DaysLogged == Cardinality(MonthIndexes)

\* C16: the total of the progressive bill is monotone non-decreasing in the
\* units for valid tariffs; hence whenever 1 <= daysLogged <= daysInMonth
\* the projected bill is at least the month-to-date cost
C16_BillMonotone ==
    /\ BillMonotone
    /\ (1 <= DaysLogged /\ DaysLogged <= daysInMonth) =>
           LET s == summary
           IN  /\ RLeq(RInt(s.totalUnits), s.projectedUnits)
               /\ RLeq(s.totalCost, s.projectedBill)

\* some but not all days of the month are logged, and the projected bill is
\* strictly above the month-to-date cost
C16_Witness ==
    /\ 1 <= DaysLogged
    /\ DaysLogged < daysInMonth
    /\ RLess(summary.totalCost, summary.projectedBill)

\* the units of a consumption of `units` (an integer) that fall inside a slab
UnitsInside(units, slab) ==
    IF units <= slab.min THEN 0
    ELSE IF slab.hasMax /\ units >= slab.max THEN slab.max - slab.min
    ELSE units - slab.min

\* the sum over the slabs of rate * the units inside the slab
RECURSIVE PerSlabSum(_, _)
PerSlabSum(units, slabs) ==
    IF slabs = << >> THEN 0
    ELSE PerSlabSum(units, Tail(slabs)) + Head(slabs).rate * UnitsInside(units, Head(slabs))

\* the bill of `units` is the per-slab sum plus the fixed charge
BilledPerSlab(units, t) ==
    LET bill == calculateProgressiveBill(RInt(units), t)
    IN  /\ bill.energyCost = RInt(PerSlabSum(units, t.slabs))
        /\ bill.total = RAdd(bill.energyCost, RInt(t.fixedCharge))

\* slabs 0-100 @ 3, 100-300 @ 5, 300+ @ 7 and a fixed charge of 50
ExampleTariff == TariffWith(50, << 100, 300 >>, << 3, 5, 7 >>)

\* 250 units cost 100*3 + 150*5 + 0*7 = 1050, and 1100 in total
ExampleBill ==
    LET bill == calculateProgressiveBill(RInt(250), ExampleTariff)
    IN  /\ SlabCost(RInt(250), ExampleTariff.slabs[1]) = RInt(300)
        /\ SlabCost(RInt(250), ExampleTariff.slabs[2]) = RInt(750)
        /\ SlabCost(RInt(250), ExampleTariff.slabs[3]) = RInt(0)
        /\ bill.energyCost = RInt(1050)
        /\ bill.total = RInt(1100)

BillsPerSlab ==
    \A t \in Tariffs : \A k \in 1..Len(UnitGrid) : BilledPerSlab(UnitGrid[k], t)

\* C17: each slab charges only the units that fall inside it, the per-slab
\* costs sum to energyCost and energyCost + fixedCharge = total; 250 units
\* under the example tariff cost 1050 and 1100 in total
C17_PerSlabCharging ==
    /\ ExampleBill
    /\ BillsPerSlab
    /\ summary.totalCost =
           RInt(PerSlabSum(UnitsAt(MonthIndexes), stateTariff.slabs)
                + stateTariff.fixedCharge)

\* 30 days of 8 units under the first tariff of the catalog: 240 units span
\* two slabs and cost 100*3 + 140*5 + 50
C17_Witness ==
    /\ selectedStateId = INDIAN_STATES[1].id
    /\ UnitsAt(MonthIndexes) = 240
    /\ summary.totalCost = RInt(1050)

-----------------------------------------------------------------------------
(* Properties of the journal of daily logs *)

\* the logs the day editor can hand to onSave in the current month
SavableLogs == {Log(DateStr(i), u) : i \in LogDays, u \in UnitChoices}

\* the positions of `logs` holding the date
PositionsOfDate(logs, date) == {k \in 1..Len(logs) : logs[k].date = date}

\* C18: dailyLogs holds at most one log per date; handleSaveLog with a date
\* of the list replaces that entry in place (same length, the other positions
\* untouched) and with a new date appends the log at the end.
C18_OneLogPerDate ==
    /\ \A j \in 1..Len(dailyLogs), k \in 1..Len(dailyLogs) :
           dailyLogs[j].date = dailyLogs[k].date => j = k
    /\ \A log \in SavableLogs :
           LET after == HandleSaveLogResult(dailyLogs, log)
               at == PositionsOfDate(dailyLogs, log.date)
           IN  IF at # {}
               THEN /\ Len(after) = Len(dailyLogs)
                    /\ \A k \in at : after[k] = log
                    /\ \A k \in (1..Len(dailyLogs)) \ at : after[k] = dailyLogs[k]
               ELSE /\ Len(after) = Len(dailyLogs) + 1
                    /\ after[Len(after)] = log
                    /\ SubSeq(after, 1, Len(dailyLogs)) = dailyLogs

\* day 10 was logged before day 1 (a new date goes to the end, wherever it
\* falls in the month) and the two entries carry different units
C18_Witness ==
    /\ Len(dailyLogs) = 2
    /\ dailyLogs[1].date = DateStr(10)
    /\ dailyLogs[2].date = DateStr(1)
    /\ dailyLogs[1].totalUnits # dailyLogs[2].totalUnits

\* C19: handleSaveLog(log) followed by handleUndoLast restores dailyLogs to
\* its value before the save, whether the log has a new date or edits a
\* date that was already logged.
C19_UndoRestoresJournal ==
    \A log \in SavableLogs :
        HandleUndoLastResult(HandleSaveLogResult(dailyLogs, log)) = dailyLogs

-----------------------------------------------------------------------------
(* The session and the screens *)

\* the values of AppStep, and the steps the navigation bar offers
AppSteps ==
    {"intro", "language", "state", "setup", "appliances", "calendar", "bill",
     "optimization", "history", "profile", "notifications"}
NavIds == {"bill", "history", "calendar", "optimization", "notifications", "profile"}

\* the languages chosen on the language screen
Languages == {"en", "hi"}

\* variant: the screen of the step, whoever is signed in
RenderedUngated == step

\* what App returns: the auth view when nobody is signed in and the step is
\* not 'intro', else the screen of the step
Rendered == IF profile = Null /\ step # "intro" THEN "auth" ELSE step

\* the screen is shown and the appliance form does not cover it
OnScreen(screen) == Rendered = screen /\ ~showAppForm

\* setStep(next), nothing else
SetStep(next) ==
    /\ step' = next
    /\ UNCHANGED <<dailyLogs, subsidyConfig, appliances, season, selectedStateId,
                   now, tz, lenientDate, profile, lang, retryVars, renderVars, formVars, storeVars>>

\* the button of the intro screen
ClickStart == OnScreen("intro") /\ SetStep("language")

\* a language of the language screen: setLang(l.id); setStep('state')
ChooseLanguage ==
    \E l \in Languages :
        /\ OnScreen("language")
        /\ lang' = l
        /\ step' = "state"
        /\ UNCHANGED <<dailyLogs, subsidyConfig, appliances, season, selectedStateId,
                       now, tz, lenientDate, profile, retryVars, renderVars, formVars, history, solarConfig>>
        /\ Persist

\* a state of the state screen
ChooseState == OnScreen("state") /\ SelectState

\* the setup screen's button to the appliances
ContinueToAppliances == OnScreen("setup") /\ SetStep("appliances")

\* the appliances screen's back button
BackToSetup == OnScreen("appliances") /\ SetStep("setup")

\* the appliances screen: the "+" button, and the form it opens
AddOnAppliancesScreen == OnScreen("appliances") /\ OpenAppForm
SubmitOnAppliancesScreen == Rendered = "appliances" /\ SubmitNewAppliance
CancelOnAppliancesScreen == Rendered = "appliances" /\ CancelAppForm

\* the appliances screen's button to the bill, shown once an appliance exists
ContinueToBill ==
    /\ OnScreen("appliances")
    /\ appliances # << >>
    /\ SetStep("bill")

\* a button of the navigation bar, shown on every screen but the intro
NavClick ==
    \E id \in NavIds :
        /\ Rendered \notin {"intro", "auth"}
        /\ ~showAppForm
        /\ SetStep(id)

\* the dashboard and the notification center receive setStep as onNavigate
Navigate ==
    \E next \in AppSteps :
        /\ OnScreen("bill") \/ OnScreen("notifications")
        /\ SetStep(next)

\* the auth view's onLogin: setProfile(p); setStep('language')
handleLogin ==
    \E p \in Profiles :
        /\ Rendered = "auth"
        /\ profile' = p
        /\ step' = "language"
        /\ UNCHANGED <<dailyLogs, subsidyConfig, appliances, season, selectedStateId,
                       now, tz, lenientDate, lang, retryVars, renderVars, formVars, history, solarConfig>>
        /\ Persist

\* the profile screen's onLogout and onDeleteAccount: setProfile(null);
\* both keys are removed from localStorage; setStep('intro')
handleLogout ==
    /\ OnScreen("profile")
    /\ profile' = Null
    /\ step' = "intro"
    /\ storage' = ClearedStorage
    /\ UNCHANGED <<dailyLogs, subsidyConfig, appliances, season, selectedStateId,
                   now, tz, lenientDate, lang, retryVars, renderVars, formVars,
                   history, solarConfig>>

\* the app starts with the persisted session, if any:
\* useState(() => profile ? 'bill' : 'intro')
InitSession ==
    /\ dailyLogs = << >>
    /\ subsidyConfig = DefaultSubsidyConfig
    /\ appliances = << >>
    /\ season = "summer"
    /\ selectedStateId = INDIAN_STATES[1].id
    /\ now = At(4, 10, 20, 0)
    /\ tz = 330
    /\ lenientDate = FALSE
    /\ profile \in Profiles \cup {Null}
    /\ step = IF profile # Null THEN "bill" ELSE "intro"
    /\ lang = "en"
    /\ history = << >>
    /\ solarConfig = DefaultSolarConfig
    /\ storage = IF profile # Null THEN Stored ELSE NoStorage
    /\ NoCall

NextSession ==
    \/ ClickStart
    \/ ChooseLanguage
    \/ ChooseState
    \/ ContinueToAppliances
    \/ BackToSetup
    \/ AddOnAppliancesScreen
    \/ SubmitOnAppliancesScreen
    \/ CancelOnAppliancesScreen
    \/ ContinueToBill
    \/ NavClick
    \/ Navigate
    \/ handleLogin
    \/ handleLogout

SpecSession == InitSession /\ [][NextSession]_vars

\* while nobody is signed in only the intro screen or the auth view is shown
SignedOutScreens == profile = Null => Rendered \in {"intro", "auth"}

\* a step that signs somebody in lands on 'language', a step that signs
\* out lands on 'intro'
SignInAndOut ==
    /\ (profile = Null /\ profile' # Null) => step' = "language"
    /\ (profile # Null /\ profile' = Null) => step' = "intro"

\* C20: across navigation clicks, handleLogin and handleLogout, no screen
\* other than the intro is rendered while profile is null (the auth view is
\* shown instead); handleLogin always moves to step 'language' and
\* handleLogout always returns to step 'intro' with profile null.
C20_SignedOutScreens == []SignedOutScreens /\ [][SignInAndOut]_vars

\* somebody signed in, added an appliance and signed out; the intro's button
\* was clicked then, and the auth view stands in for the language screen
C20_Witness ==
    /\ profile = Null
    /\ appliances # << >>
    /\ step = "language"
    /\ Rendered = "auth"

-----------------------------------------------------------------------------
(* The setup and history screens, and the page reloaded *)

\* the sum over the inventory of calculateApplianceUnits(a, s)
RECURSIVE MonthlyUnits(_, _)
MonthlyUnits(inventory, s) ==
    IF inventory = << >> THEN RInt(0)
    ELSE RAdd(MonthlyUnits(Tail(inventory), s),
              calculateApplianceUnits(Head(inventory), s))

\* the gross units of the inventory and the cost of what is left of them
\* after the solar offset (120 units a month per kW) and the subsidy
getFullCalculation(inventory, tariff, solar, config, s) ==
    LET totalUnits == MonthlyUnits(inventory, s)
        solarUnits == IF solar.isInstalled THEN RScale(solar.ratingKw, 120)
                      ELSE RInt(0)
        netUnits == RMax(RInt(0), RSub(totalUnits, solarUnits))
        billableUnits ==
            IF config.type = "none" THEN netUnits
            ELSE RMax(RInt(0), RSub(netUnits, RInt(config.limitUnits)))
    IN  [totalUnits |-> totalUnits,
         totalCost |-> calculateProgressiveBill(billableUnits, tariff).total]

\* useMemo(() => getFullCalculation(...)) of the current state
calculationResult ==
    getFullCalculation(appliances, stateTariff, solarConfig, subsidyConfig, season)

\* the dashboard's onSaveToHistory: setHistory(prev => [newEntry, ...prev]);
\* setStep('history'). Date.now() gives the id and the timestamp, the
\* tariff's id stands for its name
handleSaveForecast ==
    LET newEntry == [id |-> now,
                     timestamp |-> now,
                     totalUnits |-> calculationResult.totalUnits,
                     totalCost |-> calculationResult.totalCost,
                     stateName |-> stateTariff.id]
    IN  /\ Len(history) < MaxHistory
        /\ history' = << newEntry >> \o history
        /\ step' = "history"
        /\ UNCHANGED <<dailyLogs, subsidyConfig, appliances, season,
                       selectedStateId, now, tz, lenientDate, profile, lang,
                       retryVars, renderVars, formVars, solarConfig>>
        /\ Persist

\* the history view's onDelete: setHistory(prev => prev.filter(h => h.id !== id))
DeleteHistoryEntry ==
    \E k \in 1..Len(history) :
        LET Others(h) == h.id # history[k].id
        IN  /\ history' = SelectSeq(history, Others)
            /\ UNCHANGED <<dailyLogs, subsidyConfig, appliances, season,
                           selectedStateId, now, tz, lenientDate, sessionVars,
                           retryVars, renderVars, formVars, solarConfig>>
            /\ Persist

\* the solar switch: setSolarConfig(prev => ({ ...prev, isInstalled: !prev.isInstalled }))
ToggleSolar ==
    /\ solarConfig' = [solarConfig EXCEPT !.isInstalled = ~solarConfig.isInstalled]
    /\ UNCHANGED <<dailyLogs, subsidyConfig, appliances, season, selectedStateId,
                   now, tz, lenientDate, sessionVars, retryVars, renderVars,
                   formVars, history>>
    /\ Persist

\* the value of the capacity slider (min 1, max 25, step 0.5): the digits of
\* the whole part, and whether ".5" follows
SliderTexts == {[whole |-> << 3 >>, half |-> FALSE], [whole |-> << 5 >>, half |-> TRUE]}

\* parseFloat of a slider value
ParseFloat(text) == Rat(2 * DigitsValue(text.whole) + (IF text.half THEN 1 ELSE 0), 2)

\* the capacity slider, shown while solar is installed:
\* setSolarConfig(prev => ({ ...prev, ratingKw: parseFloat(e.target.value) }))
SetSolarRating ==
    \E text \in SliderTexts :
        /\ solarConfig.isInstalled
        /\ solarConfig' = [solarConfig EXCEPT !.ratingKw = ParseFloat(text)]
        /\ UNCHANGED <<dailyLogs, subsidyConfig, appliances, season, selectedStateId,
                       now, tz, lenientDate, sessionVars, retryVars, renderVars,
                       formVars, history>>
        /\ Persist

\* the page is loaded again: every useState initializer reads localStorage
\* (saved ? JSON.parse(saved) : null, initialData.x || default), the form is
\* closed, and the persistence effect runs after the first render
Reload ==
    LET saved == storage.data
        Initial(field, default) == IF saved = << >> THEN default ELSE saved[1][field]
    IN  /\ profile' = storage.session
        /\ step' = IF storage.session # Null THEN "bill" ELSE "intro"
        /\ lang' = Initial("lang", "en")
        /\ selectedStateId' = Initial("selectedStateId", INDIAN_STATES[1].id)
        /\ appliances' = Initial("appliances", << >>)
        /\ dailyLogs' = Initial("dailyLogs", << >>)
        /\ history' = Initial("history", << >>)
        /\ season' = Initial("season", "summer")
        /\ solarConfig' = Initial("solarConfig", DefaultSolarConfig)
        /\ subsidyConfig' = Initial("subsidyConfig", DefaultSubsidyConfig)
        /\ showAppForm' = FALSE
        /\ editingAppliance' = << >>
        /\ UNCHANGED <<now, tz, lenientDate, retryVars, renderVars>>
        /\ Persist

-----------------------------------------------------------------------------
(* One browser, one account after another *)

SaveOnCalendarScreen == OnScreen("calendar") /\ SaveToday
SaveForecastOnBillScreen == OnScreen("bill") /\ handleSaveForecast
DeleteOnHistoryScreen == OnScreen("history") /\ DeleteHistoryEntry
ToggleSolarOnSetupScreen == OnScreen("setup") /\ ToggleSolar
SetSolarRatingOnSetupScreen == OnScreen("setup") /\ SetSolarRating

\* a browser that never ran the app: nothing stored, nobody signed in
InitStorage ==
    /\ dailyLogs = << >>
    /\ subsidyConfig = DefaultSubsidyConfig
    /\ appliances = << >>
    /\ season = "summer"
    /\ selectedStateId = INDIAN_STATES[1].id
    /\ now = At(4, 10, 20, 0)
    /\ tz = 330
    /\ lenientDate = FALSE
    /\ profile = Null
    /\ step = "intro"
    /\ lang = "en"
    /\ history = << >>
    /\ solarConfig = DefaultSolarConfig
    /\ storage = NoStorage
    /\ NoCall

NextStorage ==
    \/ ClickStart
    \/ ChooseLanguage
    \/ ChooseState
    \/ ContinueToAppliances
    \/ AddOnAppliancesScreen
    \/ SubmitOnAppliancesScreen
    \/ NavClick
    \/ SaveOnCalendarScreen
    \/ SaveForecastOnBillScreen
    \/ DeleteOnHistoryScreen
    \/ ToggleSolarOnSetupScreen
    \/ SetSolarRatingOnSetupScreen
    \/ handleLogin
    \/ handleLogout
    \/ Reload

SpecStorage == InitStorage /\ [][NextStorage]_vars

\* while nobody is signed in neither key is stored
SignedOutNothingStored == profile = Null => storage = NoStorage

\* a step that signs somebody in starts from an empty inventory, journal
\* and history, and stores none of what was there before
SignInStartsEmpty ==
    (profile = Null /\ profile' # Null) =>
        /\ appliances' = << >>
        /\ dailyLogs' = << >>
        /\ history' = << >>
        /\ storage'.data[1].appliances = << >>
        /\ storage'.data[1].dailyLogs = << >>
        /\ storage'.data[1].history = << >>

\* C21: sessions are isolated: after handleLogout both stored keys are
\* absent and nothing is written while profile is null, and a subsequent
\* handleLogin starts from empty appliances, dailyLogs and history, so that
\* data entered under one profile is never shown to or persisted under the
\* next.
C21_SessionsIsolated == []SignedOutNothingStored /\ [][SignInStartsEmpty]_vars

-----------------------------------------------------------------------------
(* Properties of the errors of a remote call *)

\* the failure shows a 500: as its status, as its code, or as the
\* characters 5, 0, 0 in a row somewhere in its text
Shows500(error) ==
    \/ error.status = 500
    \/ error.code = 500
    \/ \E i \in 1..(Len(error.text) - 2) :
           /\ error.text[i] = "5"
           /\ error.text[i + 1] = "0"
           /\ error.text[i + 2] = "0"

\* the error of the last attempt so far
LastError == errors[Len(errors)]

\* C22: retryWithBackoff retries only failures that look like a server
\* error 500 (status 500, code 500 or '500' in the text): every failure that
\* was followed by a wait or by another invocation shows a 500; any other
\* failure is rethrown at once, with no wait and no invocation after it; and
\* the error rethrown, also when the retries are used up, is the error of
\* the last attempt.
C22_RetryOnly500 ==
    /\ \A k \in 1..(Len(errors) - 1) : Shows500(errors[k])
    /\ pc \in {"calling", "returned"} =>
           /\ Len(errors) = calls - 1
           /\ Len(waits) = Len(errors)
    /\ pc = "sleeping" =>
           /\ Shows500(LastError)
           /\ retries > 0
           /\ Len(errors) = calls
           /\ Len(waits) = Len(errors) - 1
    /\ pc = "thrown" =>
           /\ settled = << Rejected(LastError) >>
           /\ Len(errors) = calls
           /\ Len(waits) = Len(errors) - 1
           /\ Shows500(LastError) => (retries = 0 /\ calls = 1 + DefaultRetries)

\* a failure with status 500 was retried after 1000 ms, the second attempt
\* failed with the quota error, and that one was rethrown with no wait
C22_Witness ==
    /\ pc = "thrown"
    /\ errors = << ErrorOf(500, 0, <<"E", "r", "r">>),
                   ErrorOf(429, 429, <<"q", "u", "o", "t", "a">>) >>
    /\ calls = 2
    /\ waits = << 1000 >>
    /\ settled = << Rejected(ErrorOf(429, 429, <<"q", "u", "o", "t", "a">>)) >>

-----------------------------------------------------------------------------
(* Properties of the exported service functions *)

\* what the caller gets when the remote call failed for good
OfflineResult(f) ==
    IF f = "getTimedInsights"
    THEN Value("string", <<"o", "f", "f", "l", "i", "n", "e">>)
    ELSE Value("null", << >>)

\* what the caller gets when the response carries no text
EmptyTextResult(f) ==
    IF f = "getTimedInsights"
    THEN Value("string", <<"N", "o", " ", "i", "n", "s", "i", "g", "h", "t", "s">>)
    ELSE Value("null", << >>)

\* a response without text makes fn fulfil, so nothing is caught or retried
EmptyTextSettles ==
    \A f \in Services :
        FnOutcomes(f, Fulfilled(Value("string", << >>)))
            = {Fulfilled(EmptyTextResult(f))}

\* C23: the insight and extraction calls never reject to their caller:
\* whatever error the remote call raises, retried or not, getTimedInsights
\* resolves to the offline text and the extraction functions to null; a
\* response without text yields the 'no insights' text or null, with no
\* retry after it.
C23_NeverRejects ==
    /\ EmptyTextSettles
    /\ pc \in {"idle", "calling", "sleeping"} => outcome = << >>
    /\ pc \in {"returned", "thrown"} =>
           /\ Len(outcome) = 1
           /\ outcome[1].fulfilled
    /\ pc = "thrown" => outcome = << Fulfilled(OfflineResult(caller)) >>
    /\ pc = "returned" =>
           /\ outcome = settled
           /\ calls = Len(errors) + 1

\* the remote call failed four times with errors that look like a 500: the
\* retries are used up, retryWithBackoff rejected, the insight call resolved
\* to the offline text
C23_Witness ==
    /\ caller = "getTimedInsights"
    /\ pc = "thrown"
    /\ calls = 4
    /\ ~settled[1].fulfilled
    /\ outcome = << Fulfilled(Value("string", OfflineText)) >>

=============================================================================
